---- MODULE Spec2Model ----
(***************************************************************************)
(* Model of weather_alert_bot.py: main and the run orchestrator            *)
(* check_and_send_alerts, its change detection against the persisted      *)
(* state file, the nested retry loops of the forecast request, the         *)
(* enrichment lookups, the message composition and the dispatch to the     *)
(* two channels (specification Spec); and the functions of the program     *)
(* that reduce, aggregate and format the data, called on their own         *)
(* (specification SpecFunctions).                                          *)
(*                                                                         *)
(* A temperature of a response is the decimal number the JSON text         *)
(* carries, held in hundredths of a degree Celsius (2010 is 20.1 C).       *)
(* Arithmetic on temperatures is the arithmetic of Python's float: the     *)
(* decimal is converted to the nearest binary64 value and every            *)
(* operation rounds as IEEE 754 does, so that the comparison of line 1591, *)
(* the mean of line 403 and the conversions of line 82 give what CPython   *)
(* gives.                                                                  *)
(* Dates are records [y, m, d]; the local clock is a day index into the   *)
(* calendar that starts at FirstDay, and one run reads the same calendar  *)
(* day at each of its datetime.now() calls.                                *)
(***************************************************************************)
EXTENDS Integers, Sequences, FiniteSets, TLC

\* ---------------------------------------------------------------- bounds
\* Number of entries of the AIRPORTS table that the model iterates over.
NumAirports == 2
\* Number of calendar days the clock can show, starting at FirstDay.
MaxDay == 2
\* Largest number of today's hourly temperature entries in one response.
MaxSamples == 2

\* ------------------------------------------------------- program constants
\* Optional values: None is the empty tuple, a present value v is <<v>>.
None == <<>>
Some(v) == <<v>>
Val(o) == o[1]
\* The exception datetime.replace raises for a day that does not exist.
ValueError == [error |-> "ValueError"]

\* AIRPORTS.keys() in insertion order (the order the run loop visits them).
AIRPORTS == <<"LGA", "YYZ", "LCY", "ICN">>

AirportOrder == SubSeq(AIRPORTS, 1, NumAirports)
Airports == {AirportOrder[i] : i \in 1..Len(AirportOrder)}

\* max_retries of get_weather_forecast: HTTP attempts per call.
ForecastMaxRetriesMut == 3 + 1
ForecastMaxRetries == 3
\* max_retries of the run loop: calls of get_weather_forecast per airport.
LoopMaxRetries == 2
\* Temperatures the forecast provider may report, in hundredths of a degree:
\* 20.0, 20.1 and 20.15 C, so that deltas of 0.05, 0.1 and 0.15 all occur.
Temps == {2000, 2010, 2015}

\* Peaks of a forecast that creeps up during a day, in hundredths of a degree.
DriftTemps == {2000, 2005, 2015}

\* ------------------------------------------------------------------ dates
IsLeapYear(y) == (y % 4 = 0 /\ y % 100 # 0) \/ (y % 400 = 0)

DaysInMonth(y, m) ==
    IF m = 2 THEN (IF IsLeapYear(y) THEN 29 ELSE 28)
    ELSE IF m \in {4, 6, 9, 11} THEN 30 ELSE 31

\* The first day the clock shows: 28 February of a leap year, so that the
\* calendar runs 2024-02-28, 2024-02-29, 2024-03-01, ...
FirstDay == [y |-> 2024, m |-> 2, d |-> 28]

NextDate(dt) ==
    IF dt.d < DaysInMonth(dt.y, dt.m) THEN [dt EXCEPT !.d = dt.d + 1]
    ELSE IF dt.m < 12 THEN [y |-> dt.y, m |-> dt.m + 1, d |-> 1]
    ELSE [y |-> dt.y + 1, m |-> 1, d |-> 1]

RECURSIVE DateOf(_)
DateOf(i) == IF i <= 1 THEN FirstDay ELSE NextDate(DateOf(i - 1))

\* datetime.replace(year=y): ValueError when the day does not exist in y.
ReplaceYear(dt, y) ==
    IF dt.d <= DaysInMonth(y, dt.m) THEN [dt EXCEPT !.y = y] ELSE ValueError

\* strftime('%Y-%m-%d'): the string is determined by, and determines, the
\* triple of year, month and day.
Strftime(dt) == <<dt.y, dt.m, dt.d>>

\* ----------------------------------------------------------- dictionaries
\* dict.get(k): the value under k, None when the key is missing.
DictGet(dict, k) == IF k \in DOMAIN dict THEN dict[k] ELSE None

\* dict[k] = v
DictSet(dict, k, v) ==
    [x \in (DOMAIN dict) \cup {k} |-> IF x = k THEN v ELSE dict[x]]

EmptyDict == [x \in {} |-> None]

Abs(x) == IF x < 0 THEN -x ELSE x

\* ------------------------------------------------- natural numbers, any size
\* A Python float is a binary64 number: its 53-bit mantissa is held as a
\* natural number in limbs of 15 bits, least significant first, without
\* leading zero limbs.
Base == 2^15

Rest(a) == IF a = <<>> THEN <<>> ELSE Tail(a)
Limb(a, i) == IF i <= Len(a) THEN a[i] ELSE 0
Zeros(n) == [i \in 1..n |-> 0]

RECURSIVE BNorm(_)
BNorm(a) ==
    IF Len(a) > 0 /\ a[Len(a)] = 0 THEN BNorm(SubSeq(a, 1, Len(a) - 1)) ELSE a

RECURSIVE BFromInt(_)
BFromInt(n) == IF n = 0 THEN <<>> ELSE <<n % Base>> \o BFromInt(n \div Base)

RECURSIVE BToInt(_)
BToInt(a) == IF a = <<>> THEN 0 ELSE a[1] + Base * BToInt(Tail(a))

RECURSIVE BAddC(_, _, _)
BAddC(a, b, c) ==
    IF a = <<>> /\ b = <<>> THEN (IF c = 0 THEN <<>> ELSE <<c>>)
    ELSE LET t == Limb(a, 1) + Limb(b, 1) + c
         IN <<t % Base>> \o BAddC(Rest(a), Rest(b), t \div Base)

BAdd(a, b) == BAddC(a, b, 0)

\* a - b for a >= b
RECURSIVE BSubC(_, _, _)
BSubC(a, b, c) ==
    IF a = <<>> THEN <<>>
    ELSE LET t == a[1] - Limb(b, 1) - c
         IN <<t % Base>> \o BSubC(Tail(a), Rest(b), IF t < 0 THEN 1 ELSE 0)

BSub(a, b) == BNorm(BSubC(a, b, 0))

\* -1, 0 or 1 as a is less than, equal to or greater than b
RECURSIVE BCmpFrom(_, _, _)
BCmpFrom(a, b, i) ==
    IF i = 0 THEN 0
    ELSE IF a[i] # b[i] THEN (IF a[i] < b[i] THEN -1 ELSE 1)
    ELSE BCmpFrom(a, b, i - 1)

BCmp(a, b) ==
    IF Len(a) # Len(b) THEN (IF Len(a) < Len(b) THEN -1 ELSE 1)
    ELSE BCmpFrom(a, b, Len(a))

\* a * k for 0 < k < Base
RECURSIVE BMulC(_, _, _)
BMulC(a, k, c) ==
    IF a = <<>> THEN BFromInt(c)
    ELSE LET t == a[1] * k + c
         IN <<t % Base>> \o BMulC(Tail(a), k, t \div Base)

BMulSmall(a, k) == BNorm(BMulC(a, k, 0))

\* quotient and remainder of a by k, 0 < k < Base, from the top limb down
RECURSIVE BDivFrom(_, _, _, _)
BDivFrom(a, k, i, r) ==
    IF i = 0 THEN [q |-> <<>>, r |-> r]
    ELSE LET t == r * Base + a[i]
             below == BDivFrom(a, k, i - 1, t % k)
         IN [q |-> Append(below.q, t \div k), r |-> below.r]

Quotient(d) == [q |-> BNorm(d.q), r |-> d.r]

BDivSmall(a, k) == Quotient(BDivFrom(a, k, Len(a), 0))

\* a * 2^n and a \div 2^n
BShl(a, n) == IF a = <<>> THEN <<>> ELSE Zeros(n \div 15) \o BMulSmall(a, 2^(n % 15))

BShr(a, n) ==
    IF n \div 15 >= Len(a) THEN <<>>
    ELSE BDivSmall(SubSeq(a, (n \div 15) + 1, Len(a)), 2^(n % 15)).q

RECURSIVE IntBitLen(_)
IntBitLen(n) == IF n = 0 THEN 0 ELSE 1 + IntBitLen(n \div 2)

BitLen(a) == IF a = <<>> THEN 0 ELSE 15 * (Len(a) - 1) + IntBitLen(a[Len(a)])

BOdd(a) == a # <<>> /\ a[1] % 2 = 1

\* hi, or hi + 1: hi rounded up when what was dropped compares to one half
\* as c says (-1 below, 0 equal, 1 above); sticky says that more was dropped
\* below that, and a tie goes to the even value.
HalfEven(hi, c, sticky) ==
    IF c = 1 \/ (c = 0 /\ (sticky \/ BOdd(hi))) THEN BAdd(hi, <<1>>) ELSE hi

RoundHigh(a, n, sticky, hi) ==
    HalfEven(hi, BCmp(BSub(a, BShl(hi, n)), BShl(<<1>>, n - 1)), sticky)

\* a / 2^n rounded to the nearest integer, for n > 0
BRound(a, n, sticky) == RoundHigh(a, n, sticky, BShr(a, n))

\* ----------------------------------------------------------- Python floats
\* A float is [neg, m, e] with value (-1)^neg * m * 2^e and m of exactly
\* Mantissa bits; every operation returns the float nearest to the exact
\* result, ties to the even mantissa (IEEE 754 binary64, which CPython's
\* float is). The values of this program stay far from overflow and from
\* the subnormal range.
Mantissa == 53

FZero == [neg |-> FALSE, m |-> <<>>, e |-> 0]

\* A mantissa that rounding carried to Mantissa + 1 bits is halved.
Renorm(neg, m, e) ==
    IF BitLen(m) > Mantissa THEN [neg |-> neg, m |-> BShr(m, 1), e |-> e + 1]
    ELSE [neg |-> neg, m |-> m, e |-> e]

\* The quotient d rounded to Mantissa bits, dropping its lowest t bits.
RoundBits(neg, d, e, t) == Renorm(neg, BRound(d.q, t, d.r # 0), e + t)

RoundQuotient(neg, d, e) == RoundBits(neg, d, e, BitLen(d.q) - Mantissa)

\* N is shifted left by sh bits so that the quotient has bits to round.
RoundShifted(neg, N, D, e0, sh) == RoundQuotient(neg, BDivSmall(BShl(N, sh), D), e0 - sh)

ShiftFor(bits, want) == IF bits >= want THEN 0 ELSE want - bits

\* The float nearest to (-1)^neg * (N / D) * 2^e0, for 0 < D < Base.
RoundToFloat(neg, N, D, e0) ==
    IF N = <<>> THEN FZero
    ELSE RoundShifted(neg, N, D, e0, ShiftFor(BitLen(N), Mantissa + 3 + IntBitLen(D)))

\* float(n) of an integer, and the float a JSON number n/d parses to.
FromInt(n) == RoundToFloat(n < 0, BFromInt(Abs(n)), 1, 0)
FromDecimal(n, d) == RoundToFloat(n < 0, BFromInt(Abs(n)), d, 0)

FNeg(x) == IF x.m = <<>> THEN x ELSE [x EXCEPT !.neg = ~x.neg]
FAbs(x) == [x EXCEPT !.neg = FALSE]

\* X * 2^e + Y * 2^e with the signs xneg and yneg; c compares X to Y.
AddAligned(xneg, yneg, X, Y, e, c) ==
    RoundToFloat(IF c >= 0 THEN xneg ELSE yneg,
                 IF xneg = yneg THEN BAdd(X, Y)
                 ELSE IF c >= 0 THEN BSub(X, Y) ELSE BSub(Y, X),
                 1, e)

AddShifted(xneg, yneg, X, Y, e) == AddAligned(xneg, yneg, X, Y, e, BCmp(X, Y))

AddAt(x, y, e) == AddShifted(x.neg, y.neg, BShl(x.m, x.e - e), BShl(y.m, y.e - e), e)

\* x + y
FAdd(x, y) ==
    IF x.m = <<>> THEN y
    ELSE IF y.m = <<>> THEN x
    ELSE AddAt(x, y, IF x.e < y.e THEN x.e ELSE y.e)

FSub(x, y) == FAdd(x, FNeg(y))

\* x * k and x / k for an integer 0 < k < Base
FMulInt(x, k) == RoundToFloat(x.neg, BMulSmall(x.m, k), 1, x.e)
FDivInt(x, k) == RoundToFloat(x.neg, x.m, k, x.e)

\* x < y, x <= y
FLess(x, y) == FSub(x, y).neg
FLeq(x, y) == ~FSub(y, x).neg

\* The digits of f"{x:.1f}" as a signed number of tenths: the exact value of
\* x rounded to one decimal, ties to even. (A negative x that rounds to zero
\* prints "-0.0"; its number of tenths is 0.)
Tenths(N, e) == IF e >= 0 THEN BToInt(BShl(N, e)) ELSE BToInt(BRound(N, -e, FALSE))

Signed(neg, n) == IF neg THEN -n ELSE n

Format1f(x) == IF x.m = <<>> THEN 0 ELSE Signed(x.neg, Tenths(BMulSmall(x.m, 10), x.e))

\* ---------------------------------------------------------- hourly series
\* IndexError and friends: what a function's try block caught.
Raised == <<>>

\* A timestamp "YYYY-MM-DDTHH:MM" of hourly.time: its date string and hour.
Timestamp(date_str, hour) == [date |-> date_str, hour |-> hour]

\* All sequences over S of length at most n.
RECURSIVE SeqsUpTo(_, _)
SeqsUpTo(S, n) ==
    IF n = 0 THEN {<<>>}
    ELSE LET shorter == SeqsUpTo(S, n - 1)
         IN shorter \cup {Append(s, x) : s \in {t \in shorter : Len(t) = n - 1}, x \in S}

\* max() of a non-empty list of temperatures.
RECURSIVE SeqMax(_)
SeqMax(s) ==
    IF Len(s) = 1 THEN s[1]
    ELSE LET rest == SeqMax(Tail(s)) IN IF s[1] >= rest THEN s[1] ELSE rest

\* min() of a non-empty list of temperatures.
RECURSIVE SeqMin(_)
SeqMin(s) ==
    IF Len(s) = 1 THEN s[1]
    ELSE LET rest == SeqMin(Tail(s)) IN IF s[1] <= rest THEN s[1] ELSE rest

\* The loop of lines 582-586 (the same loop at 337-341 and 387-391), from
\* index i on: the non-null temperatures of the entries whose time starts
\* with day_str, in order; Raised when temperatures[i] is past the end of
\* the temperature array (IndexError).
RECURSIVE DayTemps(_, _, _, _)
DayTemps(times, temperatures, day_str, i) ==
    IF i > Len(times) THEN Some(<<>>)
    ELSE IF times[i].date # day_str THEN DayTemps(times, temperatures, day_str, i + 1)
    ELSE IF i > Len(temperatures) THEN Raised
    ELSE LET rest == DayTemps(times, temperatures, day_str, i + 1)
         IN IF rest = Raised THEN Raised
            ELSE IF temperatures[i] = None THEN rest
            ELSE Some(<<Val(temperatures[i])>> \o Val(rest))

\* Lines 573-595 on the arrays of one response: the peak of the day day_str,
\* None when an array is empty, when the loop raised, or when the day has
\* no temperature.
DayPeak(times, temperatures, day_str) ==
    IF Len(times) = 0 \/ Len(temperatures) = 0 THEN None
    ELSE LET day_temps == DayTemps(times, temperatures, day_str, 1)
         IN IF day_temps = Raised THEN None
            ELSE IF Val(day_temps) = <<>> THEN None
            ELSE Some(SeqMax(Val(day_temps)))

\* get_today_max_temp: weather_data is the parsed response, today_str the
\* date string of datetime.utcnow().
get_today_max_temp(weather_data, today_str) ==
    DayPeak(weather_data.time, weather_data.temperature_2m, today_str)

\* The hourly timestamps of n hours of the day date_str, from 00:00 on.
HoursOf(date_str, n) == [i \in 1..n |-> Timestamp(date_str, i - 1)]

\* The forecast responses of a run on the day today: up to MaxSamples hourly
\* temperatures of today, each possibly null, followed or not by one of
\* tomorrow, under a time array that has one entry for each of them, or one
\* more entry of today than there are temperatures of today.
Responses(today) ==
    {[time |-> HoursOf(Strftime(DateOf(today)), Len(s) + extra)
               \o HoursOf(Strftime(DateOf(today + 1)), Len(f)),
      temperature_2m |-> s \o f] :
        s \in SeqsUpTo({None} \cup {Some(t) : t \in Temps}, MaxSamples),
        extra \in {0, 1},
        f \in {<<>>, <<Some(2000)>>}}

\* The entries of the day day_str that have a temperature (lines 442-452
\* and 721-731, which read temperatures[i] only if it exists).
DayIndices(times, temperatures, day_str) ==
    {i \in 1..Len(times) :
        times[i].date = day_str /\ i <= Len(temperatures) /\ temperatures[i] # None}

SetMax(S) == CHOOSE x \in S : \A y \in S : y <= x

\* days of the call at line 1557.
FutureDays == 3

\* The loop of lines 715-822 from day_offset on: one entry per future day
\* that has a temperature, in the order of the days.
RECURSIVE FutureFrom(_, _, _, _)
FutureFrom(weather_data, today, days, day_offset) ==
    IF day_offset > days THEN <<>>
    ELSE LET future_date == DateOf(today + day_offset)
             times == weather_data.time
             temperatures == weather_data.temperature_2m
             day_data == DayIndices(times, temperatures, Strftime(future_date))
             rest == FutureFrom(weather_data, today, days, day_offset + 1)
         IN IF day_data = {} THEN rest
            ELSE <<[date |-> future_date,
                    max_temp |-> SetMax({Val(temperatures[i]) : i \in day_data})]>> \o rest

\* get_future_days_weather(weather_data, days); today is the day index of
\* datetime.utcnow().
get_future_days_weather(weather_data, today, days) ==
    IF Len(weather_data.time) = 0 \/ Len(weather_data.temperature_2m) = 0 THEN <<>>
    ELSE FutureFrom(weather_data, today, days, 1)

\* ------------------------------------------------- precipitation periods
\* weathercode values that line 498 takes for snow.
SnowCodes == {71, 73, 75, 77, 85, 86}

\* Line 498: item['weathercode'] in [71, ...]; a missing code (None) is not.
IsSnow(weathercode) == weathercode # None /\ Val(weathercode) \in SnowCodes

\* A type that takes a missing code for snow.
PrecipTypeMut(item) ==
    IF item.weathercode = None \/ IsSnow(item.weathercode) THEN "snow" ELSE "rain"

\* Line 499: the type of a wet hour.
PrecipType(item) == IF IsSnow(item.weathercode) THEN "snow" ELSE "rain"

NewPeriod(item) ==
    [start_hour |-> item.hour, end_hour |-> item.hour, type |-> PrecipType(item),
     max_precip |-> item.precipitation]

\* The condition of line 508 without its test of the hour.
ExtendsMut(current_period, item) == current_period.type = PrecipType(item)

\* The condition of line 508 (and 789): the item continues current_period.
Extends(current_period, item) ==
    current_period.type = PrecipType(item) /\ item.hour = current_period.end_hour + 1

\* The loop of lines 492-519 (and 774-800) from item i on; periods are the
\* closed periods, current the open one (None before the first wet hour).
RECURSIVE PeriodsFrom(_, _, _, _)
PeriodsFrom(today_data, i, periods, current) ==
    IF i > Len(today_data)
    THEN (IF current = None THEN periods ELSE Append(periods, Val(current)))
    ELSE LET item == today_data[i]
         IN IF item.precipitation <= 0 THEN PeriodsFrom(today_data, i + 1, periods, current)
            ELSE IF current = None
                 THEN PeriodsFrom(today_data, i + 1, periods, Some(NewPeriod(item)))
            ELSE IF Extends(Val(current), item)
                 THEN PeriodsFrom(today_data, i + 1, periods,
                        Some([Val(current) EXCEPT
                                !.end_hour = item.hour,
                                !.max_precip = IF item.precipitation > @
                                               THEN item.precipitation ELSE @]))
            ELSE PeriodsFrom(today_data, i + 1, Append(periods, Val(current)),
                             Some(NewPeriod(item)))

\* precipitation_periods of lines 488-522 and 770-803; today_data are the
\* day's samples that have a temperature, in the order of the time array.
PrecipitationPeriods(today_data) == PeriodsFrom(today_data, 1, <<>>, None)

\* ------------------------------------------------------------ day summary
\* hourly_data.get(name, []) of lines 424-431: the array, [] when the
\* response does not have it.
ArrayOf(weather_data, name) ==
    IF name \in DOMAIN weather_data THEN weather_data[name] ELSE <<>>

\* array[i] if i < len(array) else None (lines 444-450).
At(array, i) == IF i <= Len(array) THEN array[i] ELSE None

\* The item lines 453-462 append for the entry i, which has a temperature.
Item(weather_data, i) ==
    [hour |-> weather_data.time[i].hour,
     temp |-> Val(At(ArrayOf(weather_data, "temperature_2m"), i)),
     wind_direction |-> At(ArrayOf(weather_data, "winddirection_10m"), i),
     wind_speed |-> At(ArrayOf(weather_data, "windspeed_10m"), i),
     wind_gust |-> At(ArrayOf(weather_data, "windgusts_10m"), i),
     precipitation |-> IF At(ArrayOf(weather_data, "precipitation"), i) # None
                       THEN Val(At(ArrayOf(weather_data, "precipitation"), i)) ELSE 0,
     weathercode |-> At(ArrayOf(weather_data, "weathercode"), i),
     cloudcover |-> At(ArrayOf(weather_data, "cloudcover"), i)]

\* today_data of lines 441-463, from the entry i on: the entries of the day
\* today_str whose temperature is not None.
RECURSIVE TodayData(_, _, _)
TodayData(weather_data, today_str, i) ==
    IF i > Len(weather_data.time) THEN <<>>
    ELSE IF weather_data.time[i].date = today_str
            /\ At(ArrayOf(weather_data, "temperature_2m"), i) # None
         THEN <<Item(weather_data, i)>> \o TodayData(weather_data, today_str, i + 1)
    ELSE TodayData(weather_data, today_str, i + 1)

\* The field of each item of a list, and the items that have it.
Field(items, name) == [i \in 1..Len(items) |-> items[i][name]]
Having(items, name) == SelectSeq(items, LAMBDA item : item[name] # None)

\* sum() of a list of decimals given as integers over the denominator d.
RECURSIVE FSumDecimals(_, _, _, _)
FSumDecimals(acc, values, d, i) ==
    IF i > Len(values) THEN acc
    ELSE FSumDecimals(FAdd(acc, FromDecimal(Val(values[i]), d)), values, d, i + 1)

\* sum(values) / len(values), 0 for the empty list.
FMean(values, d) ==
    IF values = <<>> THEN FromInt(0)
    ELSE FDivInt(FSumDecimals(FromInt(0), values, d, 1), Len(values))

\* valid_wind_data of lines 471-473: the items that have a wind direction
\* and a wind speed.
ValidWindData(today_data) == Having(Having(today_data, "wind_direction"), "wind_speed")

\* Lines 477-479: the speed-weighted circular mean of the directions. Of
\* pairs that all have the same direction and a positive speed it is that
\* direction, and the responses considered have only such pairs.
CircularMean(valid_wind_data) == Val(valid_wind_data[1].wind_direction)

\* weather_codes of lines 178-207: the description of each WMO code. A
\* drizzle code and the rain code of the same strength have one description.
WeatherCodes ==
    [code \in {0, 1, 2, 3, 45, 48, 51, 53, 55, 56, 57, 61, 63, 65, 66, 67, 71, 73, 75, 77,
               80, 81, 82, 85, 86, 95, 96, 99} |->
        CASE code = 0 -> "clear"
          [] code = 1 -> "mainly clear"
          [] code = 2 -> "partly cloudy"
          [] code = 3 -> "overcast"
          [] code = 45 -> "fog"
          [] code = 48 -> "rime fog"
          [] code \in {51, 61} -> "light rain"
          [] code \in {53, 63} -> "moderate rain"
          [] code \in {55, 65} -> "heavy rain"
          [] code = 56 -> "freezing rain (light)"
          [] code = 57 -> "freezing rain (heavy)"
          [] code \in {66, 67} -> "freezing rain"
          [] code = 71 -> "light snow"
          [] code = 73 -> "moderate snow"
          [] code = 75 -> "heavy snow"
          [] code = 77 -> "snow grains"
          [] code = 80 -> "light showers"
          [] code = 81 -> "moderate showers"
          [] code = 82 -> "heavy showers"
          [] code = 85 -> "light snow showers"
          [] code = 86 -> "heavy snow showers"
          [] code = 95 -> "thunderstorm"
          [] code = 96 -> "thunderstorm with hail"
          [] OTHER -> "thunderstorm with heavy hail"]

\* get_weathercode_description: weather_codes.get(code, 'unknown').
get_weathercode_description(code) ==
    IF code \in DOMAIN WeatherCodes THEN WeatherCodes[code] ELSE "unknown"

\* weather_conditions[desc] = weather_conditions.get(desc, 0) + 1 (line 529)
\* on a dictionary held as the list of its keys in insertion order, each
\* with its count.
Counted(weather_conditions, desc) ==
    IF \E j \in 1..Len(weather_conditions) : weather_conditions[j].desc = desc
    THEN [j \in 1..Len(weather_conditions) |->
            IF weather_conditions[j].desc = desc
            THEN [weather_conditions[j] EXCEPT !.count = @ + 1]
            ELSE weather_conditions[j]]
    ELSE Append(weather_conditions, [desc |-> desc, count |-> 1])

\* The loop of lines 526-529 from the item i on.
RECURSIVE WeatherConditions(_, _, _)
WeatherConditions(today_data, i, weather_conditions) ==
    IF i > Len(today_data) THEN weather_conditions
    ELSE IF today_data[i].weathercode = None
         THEN WeatherConditions(today_data, i + 1, weather_conditions)
    ELSE WeatherConditions(today_data, i + 1,
            Counted(weather_conditions,
                    get_weathercode_description(Val(today_data[i].weathercode))))

\* max(weather_conditions.items(), key=count)[0]: the first key, in
\* insertion order, whose count is the largest (line 531).
MostCommon(weather_conditions) ==
    IF weather_conditions = <<>> THEN "unknown"
    ELSE weather_conditions[CHOOSE j \in 1..Len(weather_conditions) :
            /\ \A k \in 1..Len(weather_conditions) :
                    weather_conditions[k].count <= weather_conditions[j].count
            /\ \A k \in 1..(j - 1) :
                    weather_conditions[k].count < weather_conditions[j].count].desc

\* max(valid_gusts), 0 when no item has a gust (lines 534-537).
MaxGust(valid_gusts) ==
    IF valid_gusts = <<>> THEN 0
    ELSE SetMax({Val(valid_gusts[i]) : i \in 1..Len(valid_gusts)})

\* Lines 465-552 on today_data: None when it is empty, the summary of the
\* day otherwise. Temperatures are in hundredths of a degree, wind speeds
\* and gusts in tenths of a km/h, cloud cover in percent.
DetailsOf(today_data) ==
    IF today_data = <<>> THEN None
    ELSE Some([max_temp |-> SeqMax(Field(today_data, "temp")),
               wind_direction |->
                    IF ValidWindData(today_data) = <<>> THEN None
                    ELSE Some(CircularMean(ValidWindData(today_data))),
               wind_speed |-> FMean(Field(ValidWindData(today_data), "wind_speed"), 10),
               max_gust |-> MaxGust(Field(Having(today_data, "wind_gust"), "wind_gust")),
               cloudcover |-> FMean(Field(Having(today_data, "cloudcover"), "cloudcover"), 1),
               weather_condition |-> MostCommon(WeatherConditions(today_data, 1, <<>>)),
               precipitation_periods |-> PrecipitationPeriods(today_data)])

\* get_today_weather_details(weather_data) on the day today_str of
\* datetime.utcnow().
get_today_weather_details(weather_data, today_str) ==
    IF Len(ArrayOf(weather_data, "time")) = 0
        \/ Len(ArrayOf(weather_data, "temperature_2m")) = 0 THEN None
    ELSE DetailsOf(TodayData(weather_data, today_str, 1))

\* ------------------------------------------------------------ wind arrows
\* The arrow glyphs of lines 108-122, by their Unicode names.
ArrowDown == "DOWNWARDS ARROW"
ArrowDownRight == "SOUTH EAST ARROW"
ArrowRight == "RIGHTWARDS ARROW"
ArrowUpRight == "NORTH EAST ARROW"
ArrowUp == "UPWARDS ARROW"
ArrowUpLeft == "NORTH WEST ARROW"
ArrowLeft == "LEFTWARDS ARROW"
ArrowDownLeft == "SOUTH WEST ARROW"

\* wind_direction_to_arrow; the angle is in tenths of a degree, so that the
\* sector limits 22.5, 67.5, ... are the integers 225, 675, ...
wind_direction_to_arrow(angle_tenths) ==
    LET angle == angle_tenths % 3600
    IN IF (0 <= angle /\ angle < 225) \/ angle >= 3375 THEN ArrowDown
       ELSE IF 225 <= angle /\ angle < 675 THEN ArrowDownRight
       ELSE IF 675 <= angle /\ angle < 1125 THEN ArrowRight
       ELSE IF 1125 <= angle /\ angle < 1575 THEN ArrowUpRight
       ELSE IF 1575 <= angle /\ angle < 2025 THEN ArrowUp
       ELSE IF 2025 <= angle /\ angle < 2475 THEN ArrowUpLeft
       ELSE IF 2475 <= angle /\ angle < 2925 THEN ArrowLeft
       ELSE ArrowDownLeft

\* The directions table of lines 139-157, in hundredths of a degree (the
\* limits 11.25, 33.75, ... are the integers 1125, 3375, ...); the names
\* are the compass points of the Chinese names of the source.
directions ==
    << <<0, 1125, "N">>, <<1125, 3375, "NNE">>, <<3375, 5625, "NE">>,
       <<5625, 7875, "ENE">>, <<7875, 10125, "E">>, <<10125, 12375, "ESE">>,
       <<12375, 14625, "SE">>, <<14625, 16875, "SSE">>, <<16875, 19125, "S">>,
       <<19125, 21375, "SSW">>, <<21375, 23625, "SW">>, <<23625, 25875, "WSW">>,
       <<25875, 28125, "W">>, <<28125, 30375, "WNW">>, <<30375, 32625, "NW">>,
       <<32625, 34875, "NNW">>, <<34875, 36000, "N">> >>

\* A test of line 160 that takes the upper limit of a sector into it and
\* leaves the lower limit out.
DirectionMatchesMut(d, angle) ==
    (d[1] < angle /\ angle <= d[2]) \/ (d[1] = 34875 /\ angle >= 34875)

\* The test of line 160.
DirectionMatches(d, angle) ==
    (d[1] <= angle /\ angle < d[2]) \/ (d[1] = 34875 /\ angle >= 34875)

\* The loop of lines 159-163 from the i-th direction on: the name of the
\* first direction that matches, None if there is none.
RECURSIVE FirstDirection(_, _)
FirstDirection(angle, i) ==
    IF i > Len(directions) THEN None
    ELSE IF DirectionMatches(directions[i], angle) THEN Some(directions[i][3])
    ELSE FirstDirection(angle, i + 1)

\* What wind_direction_to_name returns for the normalised angle: the name
\* and the arrow of f"{name}{arrow}". The arrow limits are multiples of half
\* a degree, so the arrow of an angle in hundredths is the arrow of its
\* tenths, rounded down.
NameOfNormalised(angle) ==
    IF FirstDirection(angle, 1) = None THEN [name |-> "N", arrow |-> ArrowDown]
    ELSE [name |-> Val(FirstDirection(angle, 1)),
          arrow |-> wind_direction_to_arrow(angle \div 10)]

\* wind_direction_to_name(angle), the angle in hundredths of a degree.
wind_direction_to_name(angle_hundredths) == NameOfNormalised(angle_hundredths % 36000)

\* ------------------------------------------------------ historical lookups
\* years of the call at line 1547 (and the default of line 352).
HistoryYears == 5

\* What get_historical_weather returns for one requested day: None (the
\* request or its parsing failed, lines 296-302), or the parsed response,
\* given by its temperature array and the number of its time entries, all of
\* them of the requested day.
ArchiveAnswer(answer, date_str) ==
    [time |-> HoursOf(date_str, answer.hours), temperature_2m |-> answer.temperature_2m]

\* get_last_year_same_date_temp(lat, lon, target_date); answer is what the
\* archive returns for the day requested (lines 317-349).
get_last_year_same_date_temp(target, answer) ==
    LET last_year_date == ReplaceYear(target, target.y - 1)
    IN IF last_year_date = ValueError THEN None
       ELSE IF answer = None THEN None
       ELSE LET historical_data == ArchiveAnswer(Val(answer), Strftime(last_year_date))
            IN DayPeak(historical_data.time, historical_data.temperature_2m,
                       Strftime(last_year_date))

\* sum(temps): the additions are made from the left, starting from 0.
RECURSIVE FSumFrom(_, _, _)
FSumFrom(acc, temps, i) ==
    IF i > Len(temps) THEN acc
    ELSE FSumFrom(FAdd(acc, FromDecimal(temps[i], 100)), temps, i + 1)

FSum(temps) == FSumFrom(FromInt(0), temps, 1)

\* The loop of lines 370-395 from year_offset on: the peaks collected, or
\* Raised when an iteration raises (the replace of line 371, or the
\* temperatures[i] of line 389); answers[year_offset] is what the archive
\* returns for the day requested in that iteration.
RECURSIVE YearPeaks(_, _, _, _)
YearPeaks(target, answers, years, year_offset) ==
    IF year_offset > years THEN Some(<<>>)
    ELSE LET historical_date == ReplaceYear(target, target.y - year_offset)
             historical_str == Strftime(historical_date)
             historical_data == ArchiveAnswer(Val(answers[year_offset]), historical_str)
             times == historical_data.time
             temperatures == historical_data.temperature_2m
             day_temps == DayTemps(times, temperatures, historical_str, 1)
             rest == YearPeaks(target, answers, years, year_offset + 1)
         IN IF historical_date = ValueError THEN Raised
            ELSE IF answers[year_offset] = None THEN rest
            ELSE IF Len(times) = 0 \/ Len(temperatures) = 0 THEN rest
            ELSE IF day_temps = Raised \/ rest = Raised THEN Raised
            ELSE IF Val(day_temps) = <<>> THEN rest
            ELSE Some(<<SeqMax(Val(day_temps))>> \o Val(rest))

\* get_historical_temp_range(lat, lon, target_date, years), lines 365-408.
get_historical_temp_range(target, answers, years) ==
    LET temps == YearPeaks(target, answers, years, 1)
    IN IF temps = Raised THEN None
       ELSE IF Val(temps) = <<>> THEN None
       ELSE Some([min_temp |-> SeqMin(Val(temps)),
                  max_temp |-> SeqMax(Val(temps)),
                  avg_temp |-> FDivInt(FSum(Val(temps)), Len(Val(temps))),
                  years_count |-> Len(Val(temps))])

\* ------------------------------------------------------- message composer
\* celsius_to_fahrenheit (line 82): (celsius * 9/5) + 32, left to right.
celsius_to_fahrenheit(celsius) == FAdd(FDivInt(FMulInt(celsius, 9), 5), FromInt(32))

\* The float of a temperature given in hundredths of a degree.
Temp(t) == FromDecimal(t, 100)

\* "{c:.1f}°C / {f:.1f}°F": both numbers in tenths.
BothUnits(celsius) == <<Format1f(celsius), Format1f(celsius_to_fahrenheit(celsius))>>

\* A message is the sequence of its lines that carry data: a label, and the
\* numbers printed (in tenths) or the marker of line 1239 that the data are
\* unavailable. The header, the three clock lines and the links, which are
\* the same in every message of an airport, are left out.
Line(label, values) == [label |-> label, unavailable |-> FALSE, values |-> values]
UnavailableLine(label) == [label |-> label, unavailable |-> TRUE, values |-> <<>>]

\* Lines 1235-1246.
SourceLine(label, temp) ==
    IF temp # None THEN Line(label, BothUnits(Temp(Val(temp)))) ELSE UnavailableLine(label)

\* Lines 1249-1291: the block is there only if weather_details is.
DetailsBlock(weather_details) ==
    IF weather_details = None THEN <<>>
    ELSE LET d == Val(weather_details)
         IN << IF d.wind_direction # None
               THEN Line("wind", <<Val(d.wind_direction), d.wind_speed>>)
               ELSE UnavailableLine("wind"),
               IF d.max_gust > 0 THEN Line("gust", <<d.max_gust>>)
               ELSE UnavailableLine("gust"),
               Line("cloudcover", <<d.cloudcover>>),
               Line("precipitation", <<Len(d.precipitation_periods)>>) >>

\* Lines 1301-1311: the block is there only if last_year_temp is; the sign
\* of the difference is printed as an arrow or "=".
LastYearBlock(max_temp, last_year_temp) ==
    IF last_year_temp = None THEN <<>>
    ELSE LET diff == FSub(Temp(max_temp), Temp(Val(last_year_temp)))
             sign == IF diff.m = <<>> THEN 0 ELSE IF diff.neg THEN -1 ELSE 1
         IN << Line("last-year", BothUnits(Temp(Val(last_year_temp)))),
               Line("year-over-year",
                    <<sign, Format1f(FAbs(diff)),
                      Format1f(celsius_to_fahrenheit(FAbs(diff)))>>) >>

\* Lines 1314-1329: the block is there only if historical_range is.
RangeBlock(historical_range) ==
    IF historical_range = None THEN <<>>
    ELSE LET r == Val(historical_range)
         IN << Line("range-years", <<r.years_count>>),
               Line("range-min", BothUnits(Temp(r.min_temp))),
               Line("range-max", BothUnits(Temp(r.max_temp))),
               Line("range-avg", BothUnits(r.avg_temp)) >>

\* Lines 1332-1402: one line per future day, with last year's peak of that
\* day if it is known; no block if there is no future day.
FutureBlock(future_days) ==
    [i \in 1..Len(future_days) |->
        Line("future-day",
             BothUnits(Temp(future_days[i].max_temp)) \o
             (IF future_days[i].last_year_temp # None
              THEN BothUnits(Temp(Val(future_days[i].last_year_temp))) ELSE <<>>))]

\* A composed message is held as the values it prints; MessageLines gives
\* the lines of its text, in order.
Message(max_temp, last_year_temp, historical_range, future_days, wunderground_temp, windy_temp, weather_details) ==
    [max_temp |-> max_temp,
     last_year_temp |-> last_year_temp,
     historical_range |-> historical_range,
     future_days |-> future_days,
     wunderground_temp |-> wunderground_temp,
     windy_temp |-> windy_temp,
     weather_details |-> weather_details]

MessageLines(message) ==
    << Line("peak", BothUnits(Temp(message.max_temp))),
       SourceLine("wunderground", message.wunderground_temp),
       SourceLine("windy", message.windy_temp) >>
    \o DetailsBlock(message.weather_details)
    \o << Line("reference-minus", BothUnits(FSub(Temp(message.max_temp), FromInt(1)))),
          Line("reference", BothUnits(Temp(message.max_temp))),
          Line("reference-plus", BothUnits(FAdd(Temp(message.max_temp), FromInt(1)))) >>
    \o LastYearBlock(message.max_temp, message.last_year_temp)
    \o RangeBlock(message.historical_range)
    \o FutureBlock(message.future_days)

\* A composer that also raises when there is no historical range.
format_temperature_messageMut(today, max_temp, last_year_temp, historical_range, future_days, wunderground_temp, windy_temp, weather_details) ==
    IF ReplaceYear(today, today.y - 1) = ValueError \/ historical_range = None THEN Raised
    ELSE Some(Message(max_temp, last_year_temp, historical_range, future_days,
                      wunderground_temp, windy_temp, weather_details))

\* format_temperature_message on the day today of datetime.now(): Raised
\* when the replace of line 1218 raises, the message otherwise.
format_temperature_message(today, max_temp, last_year_temp, historical_range, future_days, wunderground_temp, windy_temp, weather_details) ==
    IF ReplaceYear(today, today.y - 1) = ValueError THEN Raised
    ELSE Some(Message(max_temp, last_year_temp, historical_range, future_days,
                      wunderground_temp, windy_temp, weather_details))

\* format_temperature_message_wechat: the same values in Markdown; the
\* replace is at line 972.
format_temperature_message_wechat(today, max_temp, last_year_temp, historical_range, future_days, wunderground_temp, windy_temp, weather_details) ==
    IF ReplaceYear(today, today.y - 1) = ValueError THEN Raised
    ELSE Some(Message(max_temp, last_year_temp, historical_range, future_days,
                      wunderground_temp, windy_temp, weather_details))

\* ------------------------------------------------------------ environment
\* The placeholders of lines 20 and 1646, and the default chat id of line 23.
TokenPlaceholder == "<token placeholder>"
ChatIdPlaceholder == "<chat id placeholder>"
DefaultChatId == "6826881653"

\* os.getenv(name, default) on the process environment environ.
Getenv(environ, name, default) ==
    IF environ[name] = None THEN default ELSE Val(environ[name])

\* The environments the program may be started in.
Environs ==
    [TELEGRAM_BOT_TOKEN : {None, Some(""), Some(TokenPlaceholder), Some("123456:token")},
     TELEGRAM_CHAT_ID : {None, Some(""), Some(ChatIdPlaceholder)},
     WECHAT_WEBHOOK_URL : {None, Some("https://qyapi.weixin.qq.com/hook")},
     GITHUB_EVENT_NAME : {None, Some("schedule"), Some("workflow_dispatch")}]

\* The module globals of lines 20, 23 and 27.
ReadConfig(environ) ==
    [TELEGRAM_BOT_TOKEN |-> Getenv(environ, "TELEGRAM_BOT_TOKEN", TokenPlaceholder),
     TELEGRAM_CHAT_ID |-> Getenv(environ, "TELEGRAM_CHAT_ID", DefaultChatId),
     WECHAT_WEBHOOK_URL |-> Getenv(environ, "WECHAT_WEBHOOK_URL", "")]

\* The globals before the process exists.
NoConfig == [TELEGRAM_BOT_TOKEN |-> "", TELEGRAM_CHAT_ID |-> "", WECHAT_WEBHOOK_URL |-> ""]

\* The check of lines 1641-1649 without its tests of the placeholders.
ConfigOkMut(cfg) == cfg.TELEGRAM_BOT_TOKEN # "" /\ cfg.TELEGRAM_CHAT_ID # ""

\* The check of lines 1641-1649 passes.
ConfigOk(cfg) ==
    /\ ~(cfg.TELEGRAM_BOT_TOKEN = TokenPlaceholder \/ cfg.TELEGRAM_BOT_TOKEN = "")
    /\ ~(cfg.TELEGRAM_CHAT_ID = "" \/ cfg.TELEGRAM_CHAT_ID = ChatIdPlaceholder)

\* Line 1653.
IsManualTrigger(environ) == environ.GITHUB_EVENT_NAME = Some("workflow_dispatch")

\* Line 1608.
WechatConfigured(cfg) == cfg.WECHAT_WEBHOOK_URL # ""

\* ------------------------------------------------------------- enrichment
\* What the archive answers to a lookup that succeeds: one hour of the
\* requested day, at 19.00 C.
ArchiveOk == Some([hours |-> 1, temperature_2m |-> <<Some(1900)>>])

\* The outcomes of the enrichment requests of one airport's iteration: the
\* value get_wunderground_temp and get_windy_temp return (None when they
\* failed), and what the archive answers to get_last_year_same_date_temp
\* for today, to get_historical_temp_range, and to
\* get_last_year_same_date_temp for the future days.
Outcomes ==
    [wunderground : {None, Some(1950)},
     windy : {None, Some(1940)},
     last_year : {None, ArchiveOk},
     range : {None, ArchiveOk},
     future : {None, ArchiveOk}]

\* The requests that failed: their value is None (lines 1510-1574).
Failed(e) == {f \in DOMAIN e : e[f] = None}

Failures(e) == Cardinality(Failed(e))

\* The outcomes considered: no request fails, any one of them fails, all fail.
Enrichments == {e \in Outcomes : Failures(e) \in {0, 1, 5}}

\* historical_range of line 1547 on each day of the calendar, when the
\* archive gives the same answer for each of the years.
RangeOn ==
    [day \in 1..MaxDay |-> [answer \in {None, ArchiveOk} |->
        get_historical_temp_range(DateOf(day), [k \in 1..HistoryYears |-> answer],
                                  HistoryYears)]]

\* Lines 1560-1569: last year's peak is added to every future day.
WithLastYear(future_days_raw, answer) ==
    [i \in 1..Len(future_days_raw) |->
        [date |-> future_days_raw[i].date,
         max_temp |-> future_days_raw[i].max_temp,
         last_year_temp |-> get_last_year_same_date_temp(future_days_raw[i].date, answer)]]

\* ------------------------------------------------------------------ state
VARIABLES
    now,               \* the clock's calendar day (index from FirstDay)
    stateFile,         \* weather_state.json: missing, corrupt, or JSON content
    pc,                \* position of the process
    config,            \* the module globals of lines 20-27
    force_send,        \* argument of check_and_send_alerts
    last_max_temps,    \* local of check_and_send_alerts (line 1453)
    last_check_date,   \* local (line 1454)
    current_date,      \* local (line 1456)
    is_new_day,        \* local (line 1457)
    current_max_temps, \* local (line 1464)
    idx,               \* position of the airport loop (line 1466)
    retry,             \* loop variable of line 1472
    attempt,           \* loop variable of line 232
    httpCount,         \* requests.get calls made so far for the current airport
    max_temp,          \* local of the loop body (line 1485)
    weather_details,   \* local of the loop body (line 1491)
    future_days_raw,   \* local of the loop body (line 1557)
    telegram_success,  \* local of the loop body (line 1604)
    wechat_success,    \* local of the loop body (lines 1607, 1610)
    unavailable,       \* the enrichment values of this iteration that are None
    lookup,            \* per airport visited in this run: its peak, None if skipped
    reason,            \* per airport evaluated in this run: the branch taken
    sent,              \* airports whose message was handed to send_telegram_message
    attempts,          \* per airport: calls of send_telegram_message, of requests.post in send_wechat_message
    loads,             \* load_state calls of this run
    saves,             \* save_state calls of this run
    outcome,           \* how the run ended: "saved", "crashed" or "aborted"
    prev,              \* what the previous run did (NoRun before the first)
    call,              \* a function of the program and its arguments
    result             \* what the call returned, None until it has

vars == <<now, stateFile, pc, config, force_send, last_max_temps, last_check_date,
          current_date, is_new_day, current_max_temps, idx, retry, attempt,
          httpCount, max_temp, weather_details, future_days_raw, telegram_success,
          wechat_success, unavailable, lookup, reason, sent, attempts, loads, saves,
          outcome, prev, call, result>>

locals == <<force_send, last_max_temps, last_check_date, current_date, is_new_day>>

\* The locals of one iteration of the airport loop.
iteration == <<max_temp, weather_details, future_days_raw, telegram_success,
               wechat_success, unavailable>>

\* The variables of the function calls made outside a run.
pure == <<call, result>>

AllAirports == {AIRPORTS[i] : i \in 1..Len(AIRPORTS)}

\* The state returned by load_state when the file is missing or unreadable.
DefaultState ==
    [last_max_temps |-> [a \in AllAirports |-> None], last_check_date |-> None]

\* The file before the program has ever written it: not there, or not JSON.
NoFile(kind) == [kind |-> kind, last_max_temps |-> EmptyDict, last_check_date |-> None]

\* json.dump of a state by save_state: the dictionary of peaks and the date
\* string, as json.load gives them back.
JsonFile(state) ==
    [kind |-> "json", last_max_temps |-> state.last_max_temps,
     last_check_date |-> state.last_check_date]

\* load_state: the parsed file, or the default state.
load_state(file) ==
    IF file.kind = "json"
    THEN [last_max_temps |-> file.last_max_temps, last_check_date |-> file.last_check_date]
    ELSE DefaultState

\* What is known of the previous run before the first run.
NoRun == [ran |-> FALSE, date |-> None, force |-> FALSE, lookup |-> EmptyDict,
          outcome |-> "none", missed |-> {}]

\* No function is being called.
NoCall == [function |-> "none", input |-> <<>>]

\* No process exists: nothing of a run is there.
NoProcess ==
    /\ pc = "idle"
    /\ config = NoConfig
    /\ force_send = FALSE
    /\ last_max_temps = EmptyDict
    /\ last_check_date = None
    /\ current_date = None
    /\ is_new_day = FALSE
    /\ current_max_temps = EmptyDict
    /\ idx = 0
    /\ retry = 0
    /\ attempt = 0
    /\ httpCount = 0
    /\ max_temp = None
    /\ weather_details = None
    /\ future_days_raw = <<>>
    /\ telegram_success = None
    /\ wechat_success = None
    /\ unavailable = {}
    /\ lookup = EmptyDict
    /\ reason = EmptyDict
    /\ sent = {}
    /\ attempts = EmptyDict
    /\ loads = 0
    /\ saves = 0
    /\ outcome = "none"

Init ==
    /\ now = 1
    /\ stateFile \in {NoFile("missing"), NoFile("corrupt")}
    /\ NoProcess
    /\ prev = NoRun
    /\ call = NoCall
    /\ result = None

\* ------------------------------------------------------- change detection
\* The literal 0.1 of line 1591.
ChangeThreshold == FromDecimal(1, 10)

\* abs(max_temp - last) > 0.1 on the floats of the two temperatures, for
\* every pair of temperatures the provider may report.
ExceedsOn ==
    [temp \in Temps \cup DriftTemps |-> [last \in Temps \cup DriftTemps |->
        FLess(ChangeThreshold, FAbs(FSub(Temp(temp), Temp(last))))]]

Exceeds(temp, last) == ExceedsOn[temp][last]

\* The branch of lines 1576-1598 taken for one airport.
Decide(force, new_day, last, temp) ==
    IF force THEN "forced"
    ELSE IF new_day THEN "new-day"
    ELSE IF last # None
         THEN (IF Exceeds(Val(temp), Val(last)) THEN "changed" ELSE "no-change")
    ELSE "first"

\* should_send after lines 1576-1598.
ShouldSend(branch) == branch # "no-change"

\* One scheduled run of check_and_send_alerts on the given day, with one
\* airport configured whose lookups succeed with the peak temp: the branch
\* of lines 1576-1598 and the file that save_state leaves (lines 1624-1629).
ScheduledRun(file, airport, day, temp) ==
    [branch |-> Decide(FALSE, load_state(file).last_check_date # Strftime(DateOf(day)),
                       DictGet(load_state(file).last_max_temps, airport), Some(temp)),
     file |-> JsonFile([last_max_temps |-> DictSet(EmptyDict, airport, Some(temp)),
                        last_check_date |-> Strftime(DateOf(day))])]

\* The scheduled runs of one day from the i-th on, one for each peak of
\* peaks: the file after the last run and the peak of the most recent
\* notification (sending succeeds).
RECURSIVE ScheduledRuns(_, _, _, _, _, _)
ScheduledRuns(file, notified, airport, day, peaks, i) ==
    IF i > Len(peaks) THEN [file |-> file, notified |-> notified]
    ELSE ScheduledRuns(ScheduledRun(file, airport, day, peaks[i]).file,
                       IF ShouldSend(ScheduledRun(file, airport, day, peaks[i]).branch)
                       THEN Some(peaks[i]) ELSE notified,
                       airport, day, peaks, i + 1)

\* format_temperature_message raises at line 1218 (and its WeChat twin at
\* line 972) when today's date does not exist in the previous year.
FormatRaises(day) == ReplaceYear(DateOf(day), DateOf(day).y - 1) = ValueError

\* ---------------------------------------------------------------- actions
\* The calendar day changes between two invocations of the program.
Tick ==
    /\ pc = "idle"
    /\ now < MaxDay
    /\ now' = now + 1
    /\ UNCHANGED <<stateFile, pc, config, locals, current_max_temps, idx, retry, attempt,
                   httpCount, iteration, lookup, reason, sent, attempts, loads, saves,
                   outcome, prev, pure>>

\* check_and_send_alerts(force_send=force): lines 1451-1464 load the state
\* and set up the locals.
StartRun(force) ==
    /\ pc = "idle"
    /\ LET state == load_state(stateFile) IN
        /\ last_max_temps' = state.last_max_temps
        /\ last_check_date' = state.last_check_date
        /\ current_date' = Strftime(DateOf(now))
        /\ is_new_day' = (state.last_check_date # Strftime(DateOf(now)))
    /\ force_send' = force
    /\ current_max_temps' = EmptyDict
    /\ idx' = 1
    /\ retry' = 0
    /\ attempt' = 0
    /\ httpCount' = 0
    /\ lookup' = EmptyDict
    /\ reason' = EmptyDict
    /\ sent' = {}
    /\ attempts' = EmptyDict
    /\ loads' = 1
    /\ saves' = 0
    /\ outcome' = "none"
    /\ pc' = "fetch"
    /\ UNCHANGED <<now, stateFile, iteration, prev, pure>>

\* main() in an environment whose credentials pass the check of lines
\* 1641-1649: it calls check_and_send_alerts (line 1656).
MainRun(environ) ==
    /\ pc = "idle"
    /\ ConfigOk(ReadConfig(environ))
    /\ config' = ReadConfig(environ)
    /\ StartRun(IsManualTrigger(environ))

\* main() in an environment whose credentials fail the check: it prints the
\* error and returns (lines 1642-1644, 1647-1649).
MainAbort(environ) ==
    /\ pc = "idle"
    /\ ~ConfigOk(ReadConfig(environ))
    /\ config' = ReadConfig(environ)
    /\ outcome' = "aborted"
    /\ pc' = "done"
    /\ UNCHANGED <<now, stateFile, locals, current_max_temps, idx, retry, attempt,
                   httpCount, iteration, lookup, reason, sent, attempts, loads, saves,
                   prev, pure>>

\* The airport loop moves to its next iteration, or past its end; the
\* locals of the iteration that ends are not read again.
Advance ==
    /\ idx' = idx + 1
    /\ retry' = 0
    /\ attempt' = 0
    /\ httpCount' = 0
    /\ max_temp' = None
    /\ weather_details' = None
    /\ future_days_raw' = <<>>
    /\ telegram_success' = None
    /\ wechat_success' = None
    /\ unavailable' = {}
    /\ pc' = IF idx < Len(AirportOrder) THEN "fetch" ELSE "save"

\* The airport is left without a peak (the continue of lines 1482, 1488).
SkipAirport ==
    /\ lookup' = DictSet(lookup, AirportOrder[idx], None)
    /\ Advance
    /\ UNCHANGED <<current_max_temps, reason, sent, attempts, outcome>>

\* get_weather_forecast returned None to the run loop (lines 1472-1482):
\* called once more after the sleep, or the airport is skipped.
ForecastReturnedNone ==
    IF retry < LoopMaxRetries - 1
    THEN /\ retry' = retry + 1
         /\ attempt' = 0
         /\ httpCount' = httpCount + 1
         /\ UNCHANGED <<idx, pc, iteration, lookup, current_max_temps, reason, sent,
                        attempts, outcome>>
    ELSE SkipAirport

\* One requests.get of get_weather_forecast times out or fails (lines
\* 232-248): retried inside the call; the last failure is re-raised and the
\* call returns None (lines 252-254).
HttpFail ==
    /\ pc = "fetch"
    /\ IF attempt < ForecastMaxRetries - 1
       THEN /\ attempt' = attempt + 1
            /\ httpCount' = httpCount + 1
            /\ UNCHANGED <<idx, retry, pc, iteration, lookup, current_max_temps, reason,
                           sent, attempts, outcome>>
       ELSE ForecastReturnedNone
    /\ UNCHANGED <<now, stateFile, config, locals, loads, saves, prev, pure>>

\* The request succeeds but response.json() raises (line 250): the call
\* returns None without another request (lines 252-254).
HttpBadJson ==
    /\ pc = "fetch"
    /\ ForecastReturnedNone
    /\ UNCHANGED <<now, stateFile, config, locals, loads, saves, prev, pure>>

\* The request succeeds and the body parses (lines 234-236, 250-251): the
\* run loop leaves its retry loop with the response (lines 1474-1475).
HttpOk ==
    /\ pc = "fetch"
    /\ retry' = 0
    /\ attempt' = 0
    /\ httpCount' = 0
    /\ pc' = "process"
    /\ UNCHANGED <<now, stateFile, config, locals, current_max_temps, idx, iteration,
                   lookup, reason, sent, attempts, loads, saves, outcome, prev, pure>>

\* Lines 1484-1488 on the response weather_data, whose content is read
\* here: no peak can be computed and the airport is skipped.
ProcessNoPeak(weather_data) ==
    /\ pc = "process"
    /\ get_today_max_temp(weather_data, Strftime(DateOf(now))) = None
    /\ SkipAirport
    /\ UNCHANGED <<now, stateFile, config, locals, loads, saves, prev, pure>>

\* Lines 1484-1508 on the response weather_data: the peak is computed and
\* recorded (line 1507), with the details of the day; the future days of the
\* response (line 1557) are taken from it here, where the response is read.
ProcessPeak(weather_data) ==
    /\ pc = "process"
    /\ LET peak == get_today_max_temp(weather_data, Strftime(DateOf(now)))
       IN /\ peak # None
          /\ max_temp' = peak
          /\ current_max_temps' = DictSet(current_max_temps, AirportOrder[idx], peak)
          /\ lookup' = DictSet(lookup, AirportOrder[idx], peak)
    /\ weather_details' = get_today_weather_details(weather_data, Strftime(DateOf(now)))
    /\ future_days_raw' = get_future_days_weather(weather_data, now, FutureDays)
    /\ pc' = "enrich"
    /\ UNCHANGED <<now, stateFile, config, locals, idx, retry, attempt, httpCount,
                   telegram_success, wechat_success, unavailable, reason, sent,
                   attempts, loads, saves, outcome, prev, pure>>

\* The branch lines 1576-1598 take for the current airport.
Branch == Decide(force_send, is_new_day, DictGet(last_max_temps, AirportOrder[idx]), max_temp)

\* The message line 1603 composes from the peak and the outcomes e of the
\* enrichment requests of lines 1510-1574; a request that failed leaves its
\* value None.
Compose(e) ==
    format_temperature_message(
        DateOf(now), Val(max_temp),
        get_last_year_same_date_temp(DateOf(now), e.last_year),
        RangeOn[now][e.range],
        WithLastYear(future_days_raw, e.future),
        e.wunderground, e.windy, weather_details)

\* The message line 1609 composes from the same values.
ComposeWechat(e) ==
    format_temperature_message_wechat(
        DateOf(now), Val(max_temp),
        get_last_year_same_date_temp(DateOf(now), e.last_year),
        RangeOn[now][e.range],
        WithLastYear(future_days_raw, e.future),
        e.wunderground, e.windy, weather_details)

\* Lines 1510-1598 with the enrichment outcomes e: the decision finds nothing
\* to send, and the iteration ends.
ProcessQuiet(e) ==
    /\ pc = "enrich"
    /\ ~ShouldSend(Branch)
    /\ reason' = DictSet(reason, AirportOrder[idx], Branch)
    /\ Advance
    /\ UNCHANGED <<now, stateFile, config, locals, current_max_temps, lookup, sent,
                   attempts, loads, saves, outcome, prev, pure>>

\* Lines 1510-1610 with the enrichment outcomes e: a notification is due
\* and the message is composed; send_telegram_message posts it once and
\* returns whether it went through (lines 840-854); if a webhook is
\* configured, the WeChat message is composed and send_wechat_message posts
\* it once and returns whether it went through (lines 867-889), whatever
\* Telegram returned.
ProcessNotify(e, telegram_ok, wechat_ok) ==
    /\ pc = "enrich"
    /\ ShouldSend(Branch)
    /\ Compose(e) # Raised
    /\ WechatConfigured(config) => ComposeWechat(e) # Raised
    /\ wechat_ok => WechatConfigured(config)
    /\ reason' = DictSet(reason, AirportOrder[idx], Branch)
    /\ sent' = sent \cup {AirportOrder[idx]}
    /\ attempts' = DictSet(attempts, AirportOrder[idx],
                           <<1, IF WechatConfigured(config) THEN 1 ELSE 0>>)
    /\ telegram_success' = Some(telegram_ok)
    /\ wechat_success' = Some(wechat_ok)
    /\ unavailable' = Failed(e)
    /\ max_temp' = None
    /\ weather_details' = None
    /\ future_days_raw' = <<>>
    /\ pc' = "report"
    /\ UNCHANGED <<now, stateFile, config, locals, current_max_temps, idx, retry, attempt,
                   httpCount, lookup, loads, saves, outcome, prev, pure>>

\* Lines 1510-1603 with the enrichment outcomes e: a notification is due
\* but format_temperature_message raises ValueError at line 1218: nothing
\* catches it, the process ends with a traceback, before any send and
\* before save_state.
ProcessCrash(e) ==
    /\ pc = "enrich"
    /\ ShouldSend(Branch)
    /\ Compose(e) = Raised
    /\ reason' = DictSet(reason, AirportOrder[idx], Branch)
    /\ outcome' = "crashed"
    /\ pc' = "done"
    /\ max_temp' = None
    /\ weather_details' = None
    /\ future_days_raw' = <<>>
    /\ UNCHANGED <<now, stateFile, config, locals, current_max_temps, idx, retry, attempt,
                   httpCount, telegram_success, wechat_success, unavailable, lookup,
                   sent, attempts, loads, saves, prev, pure>>

\* Lines 1612-1622: the results are printed and the iteration ends.
Report ==
    /\ pc = "report"
    /\ Advance
    /\ UNCHANGED <<now, stateFile, config, locals, current_max_temps, lookup, reason,
                   sent, attempts, loads, saves, outcome, prev, pure>>

\* Lines 1624-1629: the new state replaces the file.
SaveState ==
    /\ pc = "save"
    /\ stateFile' = JsonFile([last_max_temps |-> current_max_temps,
                              last_check_date |-> current_date])
    /\ saves' = saves + 1
    /\ outcome' = "saved"
    /\ pc' = "done"
    /\ UNCHANGED <<now, config, locals, current_max_temps, idx, retry, attempt, httpCount,
                   iteration, lookup, reason, sent, attempts, loads, prev, pure>>

\* The airports of this run for which a notification was due.
Due == {a \in DOMAIN reason : ShouldSend(reason[a])}

\* The process exits; the next invocation starts from the state file alone.
\* prev describes the last call of check_and_send_alerts: a process that
\* returned at the check of the credentials made none.
Exit ==
    /\ pc = "done"
    /\ prev' = IF outcome = "aborted" THEN prev
               ELSE [ran |-> TRUE, date |-> current_date, force |-> force_send,
                     lookup |-> lookup, outcome |-> outcome, missed |-> Due \ sent]
    /\ pc' = "idle"
    /\ config' = NoConfig
    /\ force_send' = FALSE
    /\ last_max_temps' = EmptyDict
    /\ last_check_date' = None
    /\ current_date' = None
    /\ is_new_day' = FALSE
    /\ current_max_temps' = EmptyDict
    /\ idx' = 0
    /\ retry' = 0
    /\ attempt' = 0
    /\ httpCount' = 0
    /\ max_temp' = None
    /\ weather_details' = None
    /\ future_days_raw' = <<>>
    /\ telegram_success' = None
    /\ wechat_success' = None
    /\ unavailable' = {}
    /\ lookup' = EmptyDict
    /\ reason' = EmptyDict
    /\ sent' = {}
    /\ attempts' = EmptyDict
    /\ loads' = 0
    /\ saves' = 0
    /\ outcome' = "none"
    /\ UNCHANGED <<now, stateFile, pure>>

Next ==
    \/ Tick
    \/ \E environ \in Environs : MainRun(environ)
    \/ \E environ \in Environs : MainAbort(environ)
    \/ HttpFail
    \/ HttpBadJson
    \/ HttpOk
    \/ \E weather_data \in Responses(now) : ProcessNoPeak(weather_data)
    \/ \E weather_data \in Responses(now) : ProcessPeak(weather_data)
    \/ \E e \in Enrichments : ProcessQuiet(e)
    \/ \E e \in Enrichments, telegram_ok, wechat_ok \in BOOLEAN :
            ProcessNotify(e, telegram_ok, wechat_ok)
    \/ \E e \in Enrichments : ProcessCrash(e)
    \/ Report
    \/ SaveState
    \/ Exit

Spec == Init /\ [][Next]_vars

\* --------------------------------------------------------- function calls
\* The functions of the program called on their own, on arguments drawn
\* from bounded sets: call is the function and its arguments, result is
\* None until the function has returned and <<v>> once it has returned v.
MaxHours == 2
MaxLen == 3
MaxYears == 4
WetHours == 5

\* Scheduled runs in one day.
MaxRuns == 3
DetailHours == 2
CodeHours == 3

Call(function, input) == [function |-> function, input |-> input]

\* Responses for get_today_max_temp: up to MaxHours entries of today and of
\* tomorrow in the time array, and any temperature array of up to MaxLen
\* entries, whatever the length of the time array.
Series ==
    {[time |-> HoursOf(Strftime(DateOf(1)), n) \o HoursOf(Strftime(DateOf(2)), k),
      temperature_2m |-> s] :
        n \in 0..MaxHours, k \in 0..MaxHours,
        s \in SeqsUpTo({None, Some(1830), Some(2000)}, MaxLen)}

\* What the archive may answer for one year: nothing, a day whose only
\* sample is null, a day at -3.7 C, a day at 18.3 C, and a day of two time
\* entries with one temperature.
ArchiveAnswers ==
    {None,
     Some([hours |-> 1, temperature_2m |-> <<None>>]),
     Some([hours |-> 1, temperature_2m |-> <<Some(-370)>>]),
     Some([hours |-> 1, temperature_2m |-> <<Some(1830)>>]),
     Some([hours |-> 2, temperature_2m |-> <<Some(1830)>>])}

\* Arguments of get_historical_temp_range: the target date, the number of
\* years, and the archive's answer for each of them.
RangeInputs ==
    UNION {[target : {DateOf(day) : day \in 1..3}, years : {years},
            answers : [1..years -> ArchiveAnswers]] : years \in 1..MaxYears}

\* One hour of today_data: dry, light rain, heavy rain, snow, or wet without
\* a weather code.
HourKinds ==
    {[precipitation |-> 0, weathercode |-> Some(3)],
     [precipitation |-> 5, weathercode |-> Some(61)],
     [precipitation |-> 20, weathercode |-> Some(61)],
     [precipitation |-> 5, weathercode |-> Some(71)],
     [precipitation |-> 5, weathercode |-> None]}

Sample(hour, kind) ==
    [hour |-> hour, precipitation |-> kind.precipitation, weathercode |-> kind.weathercode]

\* The samples of the hours H, in the order of the clock.
RECURSIVE SamplesOf(_, _)
SamplesOf(H, kinds) ==
    IF H = {} THEN <<>>
    ELSE Append(SamplesOf(H \ {SetMax(H)}, kinds), Sample(SetMax(H), kinds[SetMax(H)]))

\* today_data of lines 440-468: any of the hours 5 .. 5 + WetHours - 1 may be
\* missing (an hour without temperature is not in today_data).
DayData ==
    UNION {{SamplesOf(H, kinds) : kinds \in [H -> HourKinds]} :
              H \in SUBSET (5..(5 + WetHours - 1))}

\* Angles from 0 to 360 degrees in steps of 7.5, in tenths of a degree.
Angles == {75 * k : k \in 0..48}

\* Angles in hundredths of a degree given to wind_direction_to_name: every
\* limit of the table, the angles a hundredth below and above it, and every
\* multiple of 7.5 degrees, each also a whole turn below (negative) and a
\* whole turn above (360 or more).
NameAngles ==
    {angle + turn * 36000 :
        angle \in {directions[i][1] + d : i \in 1..Len(directions), d \in {-1, 0, 1}}
                  \cup {750 * k : k \in 0..47},
        turn \in {-1, 0, 1}}

\* The peaks of the successive scheduled runs of one day.
PeakSequences == UNION {[1..n -> DriftTemps] : n \in 1..MaxRuns}

\* weather_details of a calm day and of a windy one.
CalmDetails ==
    [max_temp |-> 1830, wind_direction |-> None, wind_speed |-> FromInt(0), max_gust |-> 0,
     cloudcover |-> FromInt(0), weather_condition |-> "unknown", precipitation_periods |-> <<>>]

WindyDetails ==
    [max_temp |-> 1830, wind_direction |-> Some(900), wind_speed |-> FromInt(12),
     max_gust |-> 200, cloudcover |-> FromInt(40), weather_condition |-> "unknown", precipitation_periods |-> <<>>]

\* Arguments of the two composers: each optional argument is there or not.
FormatInputs ==
    [today : {DateOf(1), DateOf(2)},
     max_temp : {1830},
     last_year_temp : {None, Some(1630), Some(1830), Some(1900)},
     historical_range : {None, RangeOn[1][ArchiveOk]},
     future_days : {<<>>,
                    <<[date |-> DateOf(2), max_temp |-> 2000, last_year_temp |-> None]>>,
                    <<[date |-> DateOf(2), max_temp |-> 2000, last_year_temp |-> Some(1900)]>>},
     wunderground_temp : {None, Some(1950)},
     windy_temp : {None, Some(1940)},
     weather_details : {None, Some(CalmDetails), Some(WindyDetails)}]

\* The UTC offsets, in hours, of the time zones of the airports on the days
\* of the calendar: New York and Toronto, London, Seoul. The timestamps of a
\* response are in the airport's zone (timezone=auto, line 227).
Offsets == {-5, 0, 9}

\* The hours of the second UTC day of the calendar, counted from
\* 2024-02-28T00:00 UTC.
Instants == 24..47

\* The day index of the calendar day that the hour h falls on.
DayOfHour(h) == (h \div 24) + 1

\* Responses with one sample at noon of each of the first three local days.
LocalSeries ==
    {[time |-> <<Timestamp(Strftime(DateOf(1)), 12), Timestamp(Strftime(DateOf(2)), 12),
                 Timestamp(Strftime(DateOf(3)), 12)>>,
      temperature_2m |-> s] :
        s \in [1..3 -> {None, Some(1830), Some(2000)}]}

\* Arguments of get_today_max_temp called at the instant utcnow for an
\* airport whose zone is offset hours from UTC.
InstantInputs == [weather_data : LocalSeries, utcnow : Instants, offset : Offsets]

\* Responses for get_today_weather_details, of up to DetailHours hours of
\* today, all with a temperature: each hour has a wind direction or not, and
\* a wind speed of 10.0 or 20.5 km/h or none.
WindSeries ==
    UNION {[time : {HoursOf(Strftime(DateOf(1)), n)},
            temperature_2m : {[i \in 1..n |-> Some(1830)]},
            winddirection_10m : [1..n -> {None, Some(900)}],
            windspeed_10m : [1..n -> {None, Some(100), Some(205)}]] : n \in 1..DetailHours}

\* Responses of up to DetailHours hours of today: each hour has a
\* temperature or not, a gust or not, a cloud cover or not.
GustSeries ==
    UNION {[time : {HoursOf(Strftime(DateOf(1)), n)},
            temperature_2m : [1..n -> {None, Some(1830)}],
            windgusts_10m : [1..n -> {None, Some(100), Some(300)}],
            cloudcover : [1..n -> {None, Some(40), Some(75)}]] : n \in 1..DetailHours}

\* Responses of up to CodeHours hours of today: each hour has a temperature
\* or not, and a weather code (overcast, light drizzle, light rain) or not.
CodeSeries ==
    UNION {[time : {HoursOf(Strftime(DateOf(1)), n)},
            temperature_2m : [1..n -> {None, Some(1830)}],
            weathercode : [1..n -> {None, Some(3), Some(51), Some(61)}]] : n \in 1..CodeHours}

InitFunctions ==
    /\ now = 1
    /\ stateFile = NoFile("missing")
    /\ NoProcess
    /\ prev = NoRun
    /\ result = None
    /\ \/ \E weather_data \in Series : call = Call("get_today_max_temp", weather_data)
       \/ \E input \in RangeInputs : call = Call("get_historical_temp_range", input)
       \/ \E today_data \in DayData : call = Call("precipitation_periods", today_data)
       \/ \E input \in InstantInputs : call = Call("get_today_max_temp at an instant", input)
       \/ \E weather_data \in WindSeries : call = Call("get_today_weather_details", weather_data)
       \/ \E weather_data \in GustSeries : call = Call("get_today_weather_details", weather_data)
       \/ \E weather_data \in CodeSeries : call = Call("get_today_weather_details", weather_data)
       \/ \E angle \in Angles : call = Call("wind_direction_to_arrow", angle)
       \/ \E angle \in NameAngles : call = Call("wind_direction_to_name", angle)
       \/ \E peaks \in PeakSequences : call = Call("scheduled runs of one day", peaks)
       \/ \E input \in FormatInputs : call = Call("format_temperature_message", input)
       \/ \E input \in FormatInputs : call = Call("format_temperature_message_wechat", input)

\* The function called returns v.
Return(function, v) ==
    /\ call.function = function
    /\ result = None
    /\ result' = Some(v)
    /\ UNCHANGED <<now, stateFile, pc, config, locals, current_max_temps, idx, retry,
                   attempt, httpCount, iteration, lookup, reason, sent, attempts, loads,
                   saves, outcome, prev, call>>

\* get_today_max_temp(weather_data) on the first day of the calendar.
CallTodayMaxTemp ==
    Return("get_today_max_temp", get_today_max_temp(call.input, Strftime(DateOf(1))))

CallHistoricalRange ==
    Return("get_historical_temp_range",
           get_historical_temp_range(call.input.target, call.input.answers,
                                     call.input.years))

\* The loop of lines 488-522 in get_today_weather_details.
CallPrecipitationPeriods ==
    Return("precipitation_periods", PrecipitationPeriods(call.input))

CallWindArrow ==
    Return("wind_direction_to_arrow", wind_direction_to_arrow(call.input))

CallWindName ==
    Return("wind_direction_to_name", wind_direction_to_name(call.input))

\* The scheduled runs of the first day of the calendar for the first
\* airport, starting without a state file: the peak persisted and the peak
\* of the most recent notification.
CallScheduledRuns ==
    Return("scheduled runs of one day",
           [persisted |-> DictGet(ScheduledRuns(NoFile("missing"), None, AirportOrder[1],
                                                1, call.input, 1).file.last_max_temps,
                                  AirportOrder[1]),
            notified |-> ScheduledRuns(NoFile("missing"), None, AirportOrder[1],
                                       1, call.input, 1).notified])

FormatOf(input) ==
    format_temperature_message(input.today, input.max_temp, input.last_year_temp,
                               input.historical_range, input.future_days,
                               input.wunderground_temp, input.windy_temp,
                               input.weather_details)

FormatWechatOf(input) ==
    format_temperature_message_wechat(input.today, input.max_temp, input.last_year_temp,
                                      input.historical_range, input.future_days,
                                      input.wunderground_temp, input.windy_temp,
                                      input.weather_details)

CallFormat == Return("format_temperature_message", FormatOf(call.input))

CallFormatWechat == Return("format_temperature_message_wechat", FormatWechatOf(call.input))

\* get_today_max_temp(weather_data) at the instant call.input.utcnow: the
\* day reduced is the date of datetime.utcnow() (lines 577-578).
CallTodayMaxTempAt ==
    Return("get_today_max_temp at an instant",
           get_today_max_temp(call.input.weather_data,
                              Strftime(DateOf(DayOfHour(call.input.utcnow)))))

\* get_today_weather_details(weather_data) on the first day of the calendar.
CallTodayWeatherDetails ==
    Return("get_today_weather_details",
           get_today_weather_details(call.input, Strftime(DateOf(1))))

NextFunctions ==
    \/ CallTodayMaxTemp
    \/ CallTodayMaxTempAt
    \/ CallTodayWeatherDetails
    \/ CallHistoricalRange
    \/ CallPrecipitationPeriods
    \/ CallWindArrow
    \/ CallWindName
    \/ CallScheduledRuns
    \/ CallFormat
    \/ CallFormatWechat

SpecFunctions == InitFunctions /\ [][NextFunctions]_vars

\* ------------------------------------------------------ derived notions
\* pc = "fetch" is the process inside requests.get: the requests made so far
\* for the current airport, the one in flight included.
Requests == IF pc = "fetch" THEN httpCount + 1 ELSE 0

\* The airports whose peak was computed in this run.
Computed == {a \in DOMAIN lookup : lookup[a] # None}

\* The airports skipped in this run (fetch exhausted or no peak computable).
Skipped == {a \in DOMAIN lookup : lookup[a] = None}

\* The position of an airport in the configured order.
Position(a) == CHOOSE i \in 1..Len(AirportOrder) : AirportOrder[i] = a

\* The decision rule as the specification orders it: forced, new-day,
\* first-observation, delta-exceeded, no-change.
SpecRule(a) ==
    IF force_send THEN "forced"
    ELSE IF last_check_date # current_date THEN "new-day"
    ELSE IF DictGet(last_max_temps, a) = None THEN "first"
    ELSE IF Abs(Val(lookup[a]) - Val(last_max_temps[a])) > 10 THEN "changed"
    ELSE "no-change"

\* ----------------------------------------------------------------- claims
\* C1: in a scheduled run whose persisted last_check_date differs from
\* today's date (or is absent), every location whose peak was computed in
\* the run has been notified when the run ends, whatever its last peak.
C1_NewDayNotifiesEveryComputed ==
    (pc = "done" /\ ~force_send /\ last_check_date # Strftime(DateOf(now)))
        => \A a \in Computed : a \in sent

\* C2: in a scheduled run on the day of last_check_date, a location with a
\* persisted last peak is notified if and only if the new peak differs from
\* it by strictly more than 0.1 degree (10 hundredths): 20.00 -> 20.05 and
\* a delta of exactly 0.10 are silent, 20.00 -> 20.15 notifies.
C2_SameDayDeltaRule ==
    \A a \in DOMAIN reason :
        (~force_send /\ last_check_date = Strftime(DateOf(now))
            /\ DictGet(last_max_temps, a) # None)
        => (a \in sent <=> Abs(Val(lookup[a]) - Val(last_max_temps[a])) > 10)

\* C3: in a scheduled run on the day of last_check_date, a location whose
\* persisted last peak is absent (key missing or null) and whose peak was
\* computed has been notified when the run ends, and every location's
\* decision is the first matching rule in the order forced, new-day,
\* first-observation, delta-exceeded, no-change.
C3_FirstObservationNotified ==
    (pc = "done" /\ ~force_send /\ last_check_date = Strftime(DateOf(now)))
        => \A a \in Computed :
            /\ reason[a] = SpecRule(a)
            /\ (DictGet(last_max_temps, a) = None => a \in sent)

\* C4: a forced run has notified every configured location when it ends,
\* whatever the persisted state holds.
C4_ForcedNotifiesEveryLocation ==
    (pc = "done" /\ force_send) => sent = Airports

\* C5: of two scheduled runs in immediate succession on the same day with
\* the same lookup results, the first notified every location that was due
\* and saved its peaks and date, and the second sent nothing.
C5_SecondRunSilent ==
    (pc = "done" /\ ~force_send /\ prev.ran /\ ~prev.force
        /\ prev.date = current_date /\ prev.lookup = lookup)
    => /\ prev.missed = {}
       /\ prev.outcome = "saved"
       /\ last_check_date = prev.date
       /\ \A a \in Computed : DictGet(last_max_temps, a) = prev.lookup[a]
       /\ sent = {}

\* C6: when a run has ended, the state file holds exactly the locations
\* whose peak was computed in this run, each with this run's peak, and
\* today's date; nothing of the previous content is left.
C6_StateReplacedWholesale ==
    (pc = "done" /\ outcome # "aborted")
        => /\ stateFile.kind = "json"
           /\ DOMAIN stateFile.last_max_temps = Computed
           /\ \A a \in Computed : stateFile.last_max_temps[a] = lookup[a]
           /\ stateFile.last_check_date = Strftime(DateOf(now))

\* C7: a location whose lookup failed in a run is absent from the state
\* that run saved, and in the next scheduled run of the same day in which
\* its lookup succeeds it is notified as a first observation.
C7_FailedLookupResets ==
    /\ (pc = "done" /\ outcome = "saved")
        => \A a \in Skipped : a \notin DOMAIN stateFile.last_max_temps
    /\ (pc = "done" /\ ~force_send /\ prev.ran /\ prev.outcome = "saved"
            /\ prev.date = current_date)
        => \A a \in Computed :
            (a \in DOMAIN prev.lookup /\ prev.lookup[a] = None)
                => (a \in sent /\ reason[a] = "first")

\* C8: within one run the state is read once, before any location is
\* processed, and written once, after the last one: while locations are
\* processed the file is as it was read, and the run ends with one write.
C8_ReadOnceWrittenOnce ==
    /\ pc \in {"fetch", "process", "enrich", "report", "save"}
        => /\ loads = 1
           /\ saves = 0
           /\ load_state(stateFile).last_max_temps = last_max_temps
           /\ load_state(stateFile).last_check_date = last_check_date
    /\ (pc = "done" /\ outcome # "aborted") => (loads = 1 /\ saves = 1)

\* C9: a location whose fetch is exhausted or whose response yields no peak
\* is skipped for this run only: it is not notified, it has no entry in the
\* new state, and every later location of the configured order has been
\* fetched, evaluated and, if due, notified when the run ends.
C9_SkipDoesNotStopTheRun ==
    pc = "done"
        => \A a \in Skipped :
            /\ a \notin sent
            /\ a \notin DOMAIN current_max_temps
            /\ \A b \in Airports :
                Position(b) > Position(a)
                    => /\ b \in DOMAIN lookup
                       /\ (b \in Due => b \in sent)

\* C10 (as claimed): at most 3 requests of the primary forecast are made for
\* one location in one run.
C10_AtMostThreeRequests == Requests <= 3

\* C10 (amended): at most 6 requests of the primary forecast are made for
\* one location in one run: at most 2 calls of get_weather_forecast by the
\* run loop, each making at most 3 requests.
C10_AtMostSixRequests ==
    /\ Requests <= 6
    /\ retry < 2
    /\ attempt < 3

\* C10 witness: the sixth request for one location is in flight, in the
\* third attempt of the second call.
C10_Witness == Requests = 6 /\ retry = 1 /\ attempt = 2

\* C11: the decision taken for each location, whether the run crashes, which
\* locations are notified and the state the run saves are determined by the
\* persisted state, the date, the trigger and the primary peaks alone: the
\* outcomes of the enrichment lookups, which only leave values None, change
\* none of them.
C11_EnrichmentNonInterference ==
    /\ \A a \in DOMAIN reason :
        reason[a] = Decide(force_send, is_new_day, DictGet(last_max_temps, a), lookup[a])
    /\ outcome = "crashed" => FormatRaises(now)
    /\ outcome # "crashed" => sent = Due
    /\ (pc = "done" /\ outcome = "saved")
        => stateFile = JsonFile([last_max_temps |-> [a \in Computed |-> lookup[a]],
                                 last_check_date |-> current_date])

\* C11 witness: a location has been notified in an iteration in which all
\* five enrichment lookups failed.
C11_Witness ==
    /\ pc = "report"
    /\ unavailable = {"wunderground", "windy", "last_year", "range", "future"}
    /\ AirportOrder[idx] \in sent

\* The years of a call of get_historical_temp_range whose lookup yields a
\* peak: the date exists in that year and the archive's answer has a
\* temperature for it.
YearSamples(answer) ==
    IF answer = None THEN {}
    ELSE {Val(Val(answer).temperature_2m[i]) :
            i \in {j \in 1..Len(Val(answer).temperature_2m) :
                     j <= Val(answer).hours /\ Val(answer).temperature_2m[j] # None}}

Yielding(input) ==
    {k \in 1..input.years :
        /\ ReplaceYear(input.target, input.target.y - k) # ValueError
        /\ YearSamples(input.answers[k]) # {}}

YearPeak(input, k) == SetMax(YearSamples(input.answers[k]))

SetMin(S) == CHOOSE x \in S : \A y \in S : x <= y

\* Every answer of the archive has as many temperatures as time entries.
WellFormed(input) ==
    \A k \in 1..input.years :
        input.answers[k] # None
            => Val(input.answers[k]).hours = Len(Val(input.answers[k]).temperature_2m)

\* C12: for every target date and every subset of the years whose lookup
\* fails, get_historical_temp_range aggregates the peaks of exactly the
\* years whose lookup succeeded (stated for answers that are well formed).
C12_YearsIsolated ==
    (call.function = "get_historical_temp_range" /\ result # None /\ WellFormed(call.input))
    => LET Y == Yielding(call.input)
           peaks == {YearPeak(call.input, k) : k \in Y}
       IN IF Y = {} THEN Val(result) = None
          ELSE /\ Val(result) # None
               /\ Val(Val(result)).years_count = Cardinality(Y)
               /\ Val(Val(result)).min_temp = SetMin(peaks)
               /\ Val(Val(result)).max_temp = SetMax(peaks)

\* C13: get_historical_temp_range returns None exactly when no year yielded
\* a peak; otherwise min <= mean <= max, and years_count is the number of
\* years that yielded a peak, between 1 and N (stated for the target date
\* 28 February and answers that are well formed).
C13_RangeOrdered ==
    (call.function = "get_historical_temp_range" /\ result # None
        /\ call.input.target = DateOf(1) /\ WellFormed(call.input))
    => /\ Val(result) = None <=> Yielding(call.input) = {}
       /\ Val(result) # None
            => /\ Val(Val(result)).years_count = Cardinality(Yielding(call.input))
               /\ 1 <= Val(Val(result)).years_count
               /\ Val(Val(result)).years_count <= call.input.years
               /\ FLeq(Temp(Val(Val(result)).min_temp), Val(Val(result)).avg_temp)
               /\ FLeq(Val(Val(result)).avg_temp, Temp(Val(Val(result)).max_temp))

\* C14: when an iteration has ended, each configured channel has been
\* called exactly once for a location that was due and no channel for one
\* that was not, whatever the channels returned; and the run then goes on to
\* the later locations and to save_state.
C14_ChannelsAttemptedOnce ==
    /\ \A a \in Due :
        /\ a \in DOMAIN attempts
        /\ attempts[a] = <<1, IF WechatConfigured(config) THEN 1 ELSE 0>>
    /\ \A a \in DOMAIN reason \ Due : a \notin DOMAIN attempts
    /\ (pc = "done" /\ sent # {}) => (outcome = "saved" /\ DOMAIN lookup = Airports)

\* A required credential is missing in the globals read from the
\* environment: the token is unset (then it is the placeholder) or the
\* placeholder, or the chat id is empty.
MissingCredential ==
    config.TELEGRAM_BOT_TOKEN = TokenPlaceholder \/ config.TELEGRAM_CHAT_ID = ""

\* C15: a process started with a missing credential ends at the check of
\* main: it makes no request, sends nothing, and neither reads nor writes
\* the state.
C15_MissingCredentialAborts ==
    (pc # "idle" /\ MissingCredential)
    => /\ pc = "done"
       /\ outcome = "aborted"
       /\ loads = 0
       /\ saves = 0
       /\ Requests = 0
       /\ lookup = EmptyDict
       /\ reason = EmptyDict
       /\ sent = {}
       /\ attempts = EmptyDict

\* C15 witness: a process whose token is the placeholder, with a chat id,
\* has ended at the check.
C15_Witness ==
    /\ pc = "done"
    /\ outcome = "aborted"
    /\ config.TELEGRAM_BOT_TOKEN = TokenPlaceholder
    /\ config.TELEGRAM_CHAT_ID = DefaultChatId

\* The entries of a response that are samples of the day: their timestamp
\* is of that day and they have a temperature that is not null.
DaySamples(weather_data, day_str) ==
    {i \in 1..Len(weather_data.time) :
        /\ weather_data.time[i].date = day_str
        /\ i <= Len(weather_data.temperature_2m)
        /\ weather_data.temperature_2m[i] # None}

\* C16: for time and temperature arrays of any lengths, get_today_max_temp
\* returns the maximum of the day's samples, and None exactly when the day
\* has none.
C16_PeakIsMaxOfSamples ==
    (call.function = "get_today_max_temp" /\ result # None)
    => LET samples == DaySamples(call.input, Strftime(DateOf(1)))
       IN Val(result) =
            IF samples = {} THEN None
            ELSE Some(SetMax({Val(call.input.temperature_2m[i]) : i \in samples}))

\* The wet hours of today_data, in order.
IsWet(sample) == sample.precipitation > 0

\* The wet hour i goes on from the wet hour before it: the next hour of the
\* clock, with the same classification.
Joined(wet, i) ==
    /\ i > 1
    /\ wet[i].hour = wet[i - 1].hour + 1
    /\ IsSnow(wet[i].weathercode) = IsSnow(wet[i - 1].weathercode)

\* The last wet hour of the interval that starts at the wet hour i.
LastOf(wet, i) ==
    CHOOSE j \in i..Len(wet) :
        /\ \A k \in (i + 1)..j : Joined(wet, k)
        /\ j = Len(wet) \/ ~Joined(wet, j + 1)

\* C17: the periods returned are the maximal runs of consecutive wet hours
\* of one classification, in order, each with its first and last hour and
\* the maximum precipitation of its hours.
C17_MaximalRuns ==
    (call.function = "precipitation_periods" /\ result # None)
    => LET wet == SelectSeq(call.input, IsWet)
           starts == {i \in 1..Len(wet) : ~Joined(wet, i)}
           periods == Val(result)
       IN /\ Len(periods) = Cardinality(starts)
          /\ \A i \in starts :
                LET n == Cardinality({s \in starts : s <= i})
                    j == LastOf(wet, i)
                IN /\ periods[n].start_hour = wet[i].hour
                   /\ periods[n].end_hour = wet[j].hour
                   /\ periods[n].type = PrecipType(wet[i])
                   /\ periods[n].max_precip = SetMax({wet[k].precipitation : k \in i..j})

\* C17 witness: rain at hours 5, 6 and at hours 8, 9, hour 7 dry, has
\* returned the two periods 5-6 and 8-9.
C17_Witness ==
    /\ call.function = "precipitation_periods"
    /\ result # None
    /\ Len(call.input) = 5
    /\ \A i \in 1..5 : IsWet(call.input[i]) <=> i # 3
    /\ \A i \in {1, 2, 4, 5} : PrecipType(call.input[i]) = "rain"
    /\ Len(Val(result)) = 2
    /\ Val(result)[1].start_hour = 5 /\ Val(result)[1].end_hour = 6
    /\ Val(result)[2].start_hour = 8 /\ Val(result)[2].end_hour = 9

\* The arrow that points to where a wind from the sector blows: the sectors
\* are counted clockwise from north (0) to north-west (7).
Toward ==
    <<ArrowDown, ArrowDownLeft, ArrowLeft, ArrowUpLeft,
      ArrowUp, ArrowUpRight, ArrowRight, ArrowDownRight>>

\* The 45-degree sector of an angle given in tenths of a degree.
Sector(angle_tenths) == (((angle_tenths % 3600) + 225) \div 450) % 8

\* C18: for every 'from' angle, the arrow returned points to the compass
\* direction opposite to the angle's sector.
C18_ArrowPointsToward ==
    (call.function = "wind_direction_to_arrow" /\ result # None)
    => Val(result) = Toward[Sector(call.input) + 1]

\* The block of the message a line belongs to.
BlockOf(label) ==
    IF label \in {"wunderground", "windy"} THEN "corroborating sources"
    ELSE IF label \in {"wind", "gust", "cloudcover", "precipitation"} THEN "weather details"
    ELSE IF label \in {"last-year", "year-over-year"} THEN "year-over-year comparison"
    ELSE IF label \in {"range-years", "range-min", "range-max", "range-avg"}
         THEN "N-year range"
    ELSE IF label = "future-day" THEN "multi-day forecast"
    ELSE "peak and references"

OptionalBlocks ==
    {"corroborating sources", "weather details", "year-over-year comparison",
     "N-year range", "multi-day forecast"}

Shows(lines, label, values) ==
    \E i \in 1..Len(lines) :
        lines[i].label = label /\ ~lines[i].unavailable /\ lines[i].values = values

\* C19: a message composed for a peak of 18.3 C with no optional data shows
\* 18.3 C / 64.9 F, the references 17.3 / 63.1, 18.3 / 64.9 and 19.3 / 66.7,
\* and a line marked unavailable for every optional block (stated for the
\* calls that return a message).
C19_EveryBlockMarked ==
    (/\ call.function \in {"format_temperature_message",
                           "format_temperature_message_wechat"}
     /\ result # None
     /\ Val(result) # Raised
     /\ call.input.max_temp = 1830
     /\ call.input.last_year_temp = None
     /\ call.input.historical_range = None
     /\ call.input.future_days = <<>>
     /\ call.input.wunderground_temp = None
     /\ call.input.windy_temp = None
     /\ call.input.weather_details = None)
    => LET lines == MessageLines(Val(Val(result)))
       IN /\ Shows(lines, "peak", <<183, 649>>)
          /\ Shows(lines, "reference-minus", <<173, 631>>)
          /\ Shows(lines, "reference", <<183, 649>>)
          /\ Shows(lines, "reference-plus", <<193, 667>>)
          /\ \A block \in OptionalBlocks :
                \E i \in 1..Len(lines) :
                    BlockOf(lines[i].label) = block /\ lines[i].unavailable

\* C20: a run that passed the check of the credentials ends with every
\* configured location visited and the state saved, on every date.
C20_EveryRunSaves ==
    (pc = "done" /\ outcome # "aborted")
        => /\ outcome = "saved"
           /\ saves = 1
           /\ DOMAIN lookup = Airports

\* C21: at every instant and for every location, the samples reduced are
\* those whose timestamp carries the location's current local date: the peak
\* returned is the maximum of the samples of the local day, None when it has
\* none.
C21_LocalDayReduced ==
    (call.function = "get_today_max_temp at an instant" /\ result # None)
    => LET local_day == DayOfHour(call.input.utcnow + call.input.offset)
           samples == DaySamples(call.input.weather_data, Strftime(DateOf(local_day)))
       IN Val(result) =
            IF samples = {} THEN None
            ELSE Some(SetMax({Val(call.input.weather_data.temperature_2m[i]) : i \in samples}))

\* The values that the array name of a response has for the entries of the
\* day, in the order of the time array, those that are missing left out.
AvailableValues(weather_data, name, day_str) ==
    SelectSeq([i \in 1..Len(weather_data.time) |->
                    IF weather_data.time[i].date = day_str
                    THEN At(ArrayOf(weather_data, name), i) ELSE None],
              LAMBDA v : v # None)

\* C22: the wind speed of a day summary is the arithmetic mean of all the
\* wind-speed samples of the day that are not missing, whether or not the
\* sample has a wind direction, and zero when there is none.
C22_MeanOfAllSpeeds ==
    (call.function = "get_today_weather_details" /\ result # None /\ Val(result) # None)
    => Val(Val(result)).wind_speed
        = FMean(AvailableValues(call.input, "windspeed_10m", Strftime(DateOf(1))), 10)

\* C23: the max gust of a day summary is the maximum over every sample of
\* the day that has a gust, and its cloud cover the mean over every sample of
\* the day that has a cloud cover, zero when there is none, whether or not
\* the sample has a temperature.
C23_GustAndCloudOfAllSamples ==
    (call.function = "get_today_weather_details" /\ result # None /\ Val(result) # None)
    => /\ Val(Val(result)).max_gust
            = MaxGust(AvailableValues(call.input, "windgusts_10m", Strftime(DateOf(1))))
       /\ Val(Val(result)).cloudcover
            = FMean(AvailableValues(call.input, "cloudcover", Strftime(DateOf(1))), 1)

\* The number of samples that have the code, and the dominant code of a
\* list of codes: the first one, in the order met, whose count is the largest.
CodeCount(codes, code) == Cardinality({i \in 1..Len(codes) : codes[i] = code})

DominantCode(codes) ==
    codes[CHOOSE j \in 1..Len(codes) :
            /\ \A k \in 1..Len(codes) : CodeCount(codes, codes[k]) <= CodeCount(codes, codes[j])
            /\ \A k \in 1..(j - 1) : CodeCount(codes, codes[k]) < CodeCount(codes, codes[j])]

\* C24: the dominant condition of a day summary is that of the condition
\* code with the highest sample count among the samples of the day that have
\* a code, the first one met in a tie, and 'unknown' when no sample has one.
C24_DominantCondition ==
    (call.function = "get_today_weather_details" /\ result # None /\ Val(result) # None)
    => LET codes == AvailableValues(call.input, "weathercode", Strftime(DateOf(1)))
       IN Val(Val(result)).weather_condition
            = IF codes = <<>> THEN "unknown"
              ELSE get_weathercode_description(Val(DominantCode(codes)))

\* The period, if any, that the hour lies in.
Covering(periods, hour) ==
    {n \in 1..Len(periods) : periods[n].start_hour <= hour /\ hour <= periods[n].end_hour}

SectorNames ==
    <<"N", "NNE", "NE", "ENE", "E", "ESE", "SE", "SSE",
      "S", "SSW", "SW", "WSW", "W", "WNW", "NW", "NNW">>

\* The 22.5-degree sector of an angle in hundredths of a degree: sector 0 is
\* north, [348.75, 360) together with [0, 11.25), and a limit belongs to the
\* sector above it.
NamedSector(angle_hundredths) == (((angle_hundredths % 36000) + 1125) \div 2250) % 16

\* C26: wind_direction_to_name gives every angle, negative ones and those of
\* 360 degrees or more included, the name of the 22.5-degree sector of the
\* angle modulo 360; a limit belongs to the sector above it and north is
\* [348.75, 360) with [0, 11.25).
C26_SixteenSectors ==
    (call.function = "wind_direction_to_name" /\ result # None)
    => Val(result).name = SectorNames[NamedSector(call.input) + 1]

\* C26 witness: the negative angle -348.75 has been named, as the limit
\* 11.25 that it normalises to, north-north-east.
C26_Witness ==
    /\ call = Call("wind_direction_to_name", -34875)
    /\ result # None
    /\ Val(result).name = "NNE"

\* The arrows that wind_direction_to_name gives to the angles of a sector.
ArrowsOf(name) ==
    {wind_direction_to_name(angle).arrow :
        angle \in {a \in NameAngles : wind_direction_to_name(a).name = name}}

\* C27: two angles that wind_direction_to_name gives the same sector name
\* are given the same arrow.
C27_OneArrowPerSector ==
    (call.function = "wind_direction_to_name" /\ result # None)
    => ArrowsOf(Val(result).name) = {Val(result).arrow}

\* C28: after the scheduled runs of one day, all with successful lookups,
\* the peak of the most recent notification and the peak persisted differ
\* by at most 0.1 degrees.
C28_NotifiedNearPersisted ==
    (call.function = "scheduled runs of one day" /\ result # None)
    => /\ Val(result).notified # None
       /\ Val(result).persisted # None
       /\ Abs(Val(Val(result).notified) - Val(Val(result).persisted)) <= 10

\* The sign of an integer.
Sgn(x) == IF x > 0 THEN 1 ELSE IF x < 0 THEN -1 ELSE 0

\* C29: in the year-over-year line of both composers the symbol is up when
\* the peak is above last year's, down when it is below and equal when they
\* are the same, and the Fahrenheit delta is |peak - last year's peak| x 9/5
\* to one decimal (peaks in hundredths of a degree, the delta in tenths).
C29_DeltaAsDifference ==
    (/\ call.function \in {"format_temperature_message",
                           "format_temperature_message_wechat"}
     /\ result # None
     /\ Val(result) # Raised
     /\ call.input.last_year_temp # None)
    => \E i \in 1..Len(MessageLines(Val(Val(result)))) :
        /\ MessageLines(Val(Val(result)))[i].label = "year-over-year"
        /\ MessageLines(Val(Val(result)))[i].values[1]
            = Sgn(call.input.max_temp - Val(call.input.last_year_temp))
        /\ MessageLines(Val(Val(result)))[i].values[3]
            = (Abs(call.input.max_temp - Val(call.input.last_year_temp)) * 18 + 50) \div 100

\* C30: a scheduled run that found the state file missing or unreadable
\* (load_state gave the default state: no last peak, no last_check_date)
\* and passed the check of the credentials has, when it ends, notified every
\* location whose peak it computed and written the state file.
C30_RunWithoutStateFile ==
    (/\ pc = "done"
     /\ ~force_send
     /\ outcome # "aborted"
     /\ last_check_date = None
     /\ last_max_temps = DefaultState.last_max_temps)
    => /\ Computed \subseteq sent
       /\ outcome = "saved"
       /\ stateFile.kind = "json"

====
